---- MODULE Spec2Model ----
(***************************************************************************)
(* A model of src/server.js, the HTTP relay of the garden voice assistant: *)
(* four POST endpoints, each making one outbound provider call inside a    *)
(* try/catch that answers HTTP 500 with a fixed message.                   *)
(*                                                                         *)
(* JavaScript values are tagged records ([t |-> "string", s |-> chars],    *)
(* [t |-> "array", a |-> items], [t |-> "object", <property> |-> value]).  *)
(* Strings that the code concatenates, lower-cases or searches are         *)
(* sequences of one-character strings; strings the code only passes on     *)
(* (messages of the fixed errors, roles, contents) are TLA+ strings.       *)
(***************************************************************************)
EXTENDS Integers, Sequences, FiniteSets, TLC

\* ------------------------------------------------------------ bounds
\* Requests handled concurrently (specification Spec).
NumReq == 2
\* Longest tags array of a search request.
MaxTags == 2
\* Most records the store answers with in the model (the code asks for <= 10).
MaxStoreRecords == 2
\* Longest availableProducts array of a get-response request.
MaxProducts == 4
\* Longest conversationHistory array of a get-response request.
MaxHistory == 2

\* ------------------------------------------------------------ program constants
maxRecords == 10
RecommendedCap == 3

\* ------------------------------------------------------------ JavaScript values
Undefined == [t |-> "undefined"]
Null == [t |-> "null"]
Throw == [t |-> "throw"]
Num(n) == [t |-> "number", n |-> n]
Str(s) == [t |-> "string", s |-> s]
Arr(a) == [t |-> "array", a |-> a]
EmptyObject == [t |-> "object"]

\* The sequences of length 0..n over S.
SeqsUpTo(S, n) == UNION {[1..k -> S] : k \in 0..n}

\* v.name: a TypeError on undefined and null, undefined when the property is
\* missing (or v is a primitive without it). A TypeError propagates.
Prop(v, name) ==
    IF v.t \in {"undefined", "null", "throw"} THEN Throw
    ELSE IF v.t = "object" /\ name \in DOMAIN v THEN v[name]
    ELSE Undefined

\* v[i] for a number i (0-based, as in the code).
Index(v, i) ==
    IF v.t \in {"undefined", "null", "throw"} THEN Throw
    ELSE IF v.t = "array" /\ i + 1 <= Len(v.a) THEN v.a[i + 1]
    ELSE Undefined

\* The truthiness of a value in an if condition.
Truthy(v) ==
    CASE v.t \in {"undefined", "null"} -> FALSE
      [] v.t = "string" -> v.s # <<>>
      [] v.t = "number" -> v.n # 0
      [] OTHER -> TRUE

\* v.length > 0: the length of a string or an array, the length property of an
\* object that has one; undefined > 0 is false.
LengthPositive(v) ==
    CASE v.t = "string" -> Len(v.s) > 0
      [] v.t = "array" -> Len(v.a) > 0
      [] v.t = "object" ->
            /\ "length" \in DOMAIN v
            /\ v.length.t = "number"
            /\ v.length.n > 0
      [] OTHER -> FALSE

\* JSON.stringify of an object, as res.json sends it: a property whose value
\* is undefined is left out.
JSONObject(o) ==
    [k \in {k \in DOMAIN o : k = "t" \/ o[k] # Undefined} |-> o[k]]

\* ------------------------------------------------------------ strings
RECURSIVE Join(_, _)
\* Array.prototype.join on an array of strings.
Join(parts, sep) ==
    IF parts = <<>> THEN <<>>
    ELSE IF Len(parts) = 1 THEN parts[1]
    ELSE parts[1] \o sep \o Join(Tail(parts), sep)

\* String.prototype.toLowerCase on the model's alphabet.
LowerChar(c) ==
    CASE c = "A" -> "a"
      [] c = "B" -> "b"
      [] OTHER -> c

toLowerCase(s) == [i \in 1..Len(s) |-> LowerChar(s[i])]

\* Whether pat occurs in s at position i (1-based).
OccursAt(pat, s, i) ==
    /\ i >= 1
    /\ i + Len(pat) - 1 <= Len(s)
    /\ \A j \in 1..Len(pat) : s[i + j - 1] = pat[j]

\* String.prototype.includes.
includes(s, pat) == \E i \in 1..(Len(s) + 1) : OccursAt(pat, s, i)

\* ------------------------------------------------------------ responses
\* res.status(500).json({ error: message })
ErrorResponse(message) ==
    [status |-> 500, contentType |-> "application/json",
     body |-> [t |-> "object", error |-> message]]

\* res.json(object)
JsonResponse(object) ==
    [status |-> 200, contentType |-> "application/json", body |-> JSONObject(object)]

\* A rejected outbound call: the connection failed, or the provider answered
\* with a status outside 2xx.
Failures == {[ok |-> FALSE, kind |-> "network"], [ok |-> FALSE, kind |-> "status"]}

Success(data) == [ok |-> TRUE, data |-> data]

NoReply == [ok |-> FALSE, kind |-> "none"]

NoRequest == [endpoint |-> "none"]

\* ------------------------------------------------------------ state
VARIABLES
    req,        \* slot -> the request being handled
    pc,         \* slot -> "idle", "received", "awaiting", "resolved", "rejected", "done"
    outbound,   \* slot -> the outbound provider calls made for the request
    reply,      \* slot -> what the provider answered
    response    \* slot -> the responses sent to the caller

vars == <<req, pc, outbound, reply, response>>

Slots == DOMAIN pc

Setup(slots) ==
    /\ req = [r \in slots |-> NoRequest]
    /\ pc = [r \in slots |-> "idle"]
    /\ outbound = [r \in slots |-> <<>>]
    /\ reply = [r \in slots |-> NoReply]
    /\ response = [r \in slots |-> <<>>]

\* A request arrives and its handler is about to run.
Arrive(r, q) ==
    /\ pc[r] = "idle"
    /\ req' = [req EXCEPT ![r] = q]
    /\ pc' = [pc EXCEPT ![r] = "received"]
    /\ UNCHANGED <<outbound, reply, response>>

\* The handler sends a response and ends.
Respond(r, resp) ==
    /\ response' = [response EXCEPT ![r] = Append(@, resp)]
    /\ pc' = [pc EXCEPT ![r] = "done"]

\* The handler makes an outbound call and suspends at its await.
Call(r, call) ==
    /\ outbound' = [outbound EXCEPT ![r] = Append(@, call)]
    /\ pc' = [pc EXCEPT ![r] = "awaiting"]

\* The awaited promise settles: resolved with the provider's data, or rejected.
Settle(r, answer) ==
    /\ pc[r] = "awaiting"
    /\ reply' = [reply EXCEPT ![r] = answer]
    /\ pc' = [pc EXCEPT ![r] = IF answer.ok THEN "resolved" ELSE "rejected"]
    /\ UNCHANGED <<req, outbound, response>>

\* ------------------------------------------------------------ POST /api/transcribe
TranscribeFailed == ErrorResponse("Transcription failed")

\* TranscribeStart for a handler that reads req.file?.buffer: the call is made
\* with or without an audio file.
TranscribeStart_Optional(r) ==
    /\ pc[r] = "received"
    /\ req[r].endpoint = "transcribe"
    /\ Call(r, [provider |-> "speech-to-text", body |-> Prop(req[r].file, "buffer"),
                contentType |-> "audio/webm"])
    /\ UNCHANGED <<req, reply, response>>

\* The handler up to its await: req.file.buffer throws when multer found no
\* 'audio' file, else the buffer is posted to the speech-to-text provider.
TranscribeStart(r) ==
    /\ pc[r] = "received"
    /\ req[r].endpoint = "transcribe"
    /\ LET audioBuffer == Prop(req[r].file, "buffer")
       IN IF audioBuffer = Throw
          THEN Respond(r, TranscribeFailed) /\ UNCHANGED <<req, outbound, reply>>
          ELSE /\ Call(r, [provider |-> "speech-to-text", body |-> audioBuffer,
                           contentType |-> "audio/webm"])
               /\ UNCHANGED <<req, reply, response>>

\* response.data.results.channels[0].alternatives[0].transcript
transcriptOf(data) ==
    Prop(Index(Prop(Index(Prop(Prop(data, "results"), "channels"), 0),
                    "alternatives"), 0), "transcript")

\* TranscribeResume for a handler that posts the audio again after a rejection.
TranscribeResume_Retry(r) ==
    /\ pc[r] \in {"resolved", "rejected"}
    /\ req[r].endpoint = "transcribe"
    /\ IF pc[r] = "rejected" /\ Len(outbound[r]) < 2
       THEN /\ Call(r, outbound[r][1])
            /\ UNCHANGED <<req, reply, response>>
       ELSE /\ IF pc[r] = "rejected" \/ transcriptOf(reply[r].data) = Throw
               THEN Respond(r, TranscribeFailed)
               ELSE Respond(r, JsonResponse([t |-> "object",
                                             transcript |-> transcriptOf(reply[r].data)]))
            /\ UNCHANGED <<req, outbound, reply>>

\* The handler after its await: the catch block on a rejection or a TypeError,
\* else res.json({ transcript }).
TranscribeResume(r) ==
    /\ pc[r] \in {"resolved", "rejected"}
    /\ req[r].endpoint = "transcribe"
    /\ IF pc[r] = "rejected"
       THEN Respond(r, TranscribeFailed)
       ELSE LET transcript == transcriptOf(reply[r].data)
            IN IF transcript = Throw
               THEN Respond(r, TranscribeFailed)
               ELSE Respond(r, JsonResponse([t |-> "object", transcript |-> transcript]))
    /\ UNCHANGED <<req, outbound, reply>>

\* What the speech-to-text provider may answer with on a 2xx.
Alternatives(alts) ==
    [t |-> "object",
     results |-> [t |-> "object",
                  channels |-> Arr(<<[t |-> "object", alternatives |-> Arr(alts)]>>)]]

TranscribeData ==
    { EmptyObject,
      Str(<<"o", "k">>),
      [t |-> "object", results |-> [t |-> "object", channels |-> Arr(<<>>)]],
      Alternatives(<<>>),
      Alternatives(<<EmptyObject>>),
      Alternatives(<<[t |-> "object", transcript |-> Null]>>),
      Alternatives(<<[t |-> "object", transcript |-> Str(<<"h", "i">>)]>>),
      Alternatives(<<[t |-> "object", transcript |-> Str(<<>>)]>>) }

TranscribeRequests ==
    { [endpoint |-> "transcribe", file |-> Undefined],
      [endpoint |-> "transcribe", file |-> [t |-> "object", buffer |-> Str(<<"w">>)]] }

\* ------------------------------------------------------------ POST /api/search-products
SearchFailed == ErrorResponse("Product search failed")

\* The literal pieces of the filter formula.
InStockOpen == <<"A", "N", "D", "(", "{", "i", "n", "_", "s", "t", "o", "c", "k", "}", " ", "=", " ", "T", "R", "U", "E", "(", ")">>
CategoryOpen == <<",", " ", "{", "c", "a", "t", "e", "g", "o", "r", "y", "}", " ", "=", " ", "'">>
Quote == <<"'">>
FindOpen == <<"F", "I", "N", "D", "(", "'">>
FindClose == <<"'", ",", " ", "{", "t", "a", "g", "s", "}", ")">>
CommaSpace == <<",", " ">>
OrOpen == <<",", " ", "O", "R", "(">>
Close == <<")">>

\* tags.map(tag => `FIND('${tag}', {tags})`).join(', ')
tagConditions(tags) ==
    Join([i \in 1..Len(tags.a) |-> FindOpen \o tags.a[i].s \o FindClose], CommaSpace)

\* tags.map is not a function: the tags clause is entered for any truthy value
\* with a positive length, and only an array has map.
tagsThrow(tags) == Truthy(tags) /\ LengthPositive(tags) /\ tags.t # "array"

\* filterFormula with the category clause added for every string, the empty
\* one too (category !== undefined in place of the truthiness test).
filterFormula_AnyCategory(category, tags) ==
    LET start == InStockOpen
        withCategory ==
            IF category.t = "string"
            THEN start \o CategoryOpen \o category.s \o Quote
            ELSE start
        withTags ==
            IF Truthy(tags) /\ LengthPositive(tags)
            THEN withCategory \o OrOpen \o tagConditions(tags) \o Close
            ELSE withCategory
    IN withTags \o Close

\* The filter formula the handler builds from category and tags.
filterFormula(category, tags) ==
    LET start == InStockOpen
        withCategory ==
            IF Truthy(category)
            THEN start \o CategoryOpen \o category.s \o Quote
            ELSE start
        withTags ==
            IF Truthy(tags) /\ LengthPositive(tags)
            THEN withCategory \o OrOpen \o tagConditions(tags) \o Close
            ELSE withCategory
    IN withTags \o Close

\* The handler up to its await.
SearchStart(r) ==
    /\ pc[r] = "received"
    /\ req[r].endpoint = "search-products"
    /\ LET category == Prop(req[r].body, "category")
           tags == Prop(req[r].body, "tags")
       IN IF tagsThrow(tags)
          THEN Respond(r, SearchFailed) /\ UNCHANGED <<req, outbound, reply>>
          ELSE /\ Call(r, [provider |-> "store", table |-> "Products",
                           filterByFormula |-> filterFormula(category, tags),
                           maxRecords |-> maxRecords,
                           sortField |-> "title", sortDirection |-> "asc"])
               /\ UNCHANGED <<req, reply, response>>

\* record.get(name): the record's field of that name, undefined when it has none.
get(record, name) == Prop(record.fields, name)

\* toProduct with use_case read from a column named like the field.
toProduct_SameNames(record) ==
    [t |-> "object",
     id |-> record.id,
     product_id |-> get(record, "product_id"),
     title |-> get(record, "title"),
     brand |-> get(record, "brand"),
     category |-> get(record, "category"),
     tags |-> get(record, "tags"),
     short_description |-> get(record, "short_description"),
     price |-> get(record, "price"),
     bag_size_cf |-> get(record, "bag-size-cf"),
     in_stock |-> get(record, "in_stock"),
     image_url |-> get(record, "image_url"),
     use_case |-> get(record, "use_case"),
     voice_script_30S |-> get(record, "voice_script_30S")]

\* The product the handler makes of one store record.
toProduct(record) ==
    [t |-> "object",
     id |-> record.id,
     product_id |-> get(record, "product_id"),
     title |-> get(record, "title"),
     brand |-> get(record, "brand"),
     category |-> get(record, "category"),
     tags |-> get(record, "tags"),
     short_description |-> get(record, "short_description"),
     price |-> get(record, "price"),
     bag_size_cf |-> get(record, "bag-size-cf"),
     in_stock |-> get(record, "in_stock"),
     image_url |-> get(record, "image_url"),
     use_case |-> get(record, "use-case"),
     voice_script_30S |-> get(record, "voice_script_30S")]

\* records.map(record => ({...}))
products(records) == [i \in 1..Len(records) |-> toProduct(records[i])]

\* The handler after its await: res.json({ products }), or the catch block.
SearchResume(r) ==
    /\ pc[r] \in {"resolved", "rejected"}
    /\ req[r].endpoint = "search-products"
    /\ IF pc[r] = "rejected"
       THEN Respond(r, SearchFailed)
       ELSE LET sent == products(reply[r].data)
            IN Respond(r, JsonResponse(
                   [t |-> "object",
                    products |-> Arr([i \in 1..Len(sent) |-> JSONObject(sent[i])])]))
    /\ UNCHANGED <<req, outbound, reply>>

\* The columns of the store's Products table, under the store's names.
StoreColumns ==
    {"product_id", "title", "brand", "category", "tags", "short_description",
     "price", "bag-size-cf", "in_stock", "image_url", "use-case", "voice_script_30S"}

\* The value of column name in store record k.
Cell(k, name) == [t |-> "cell", record |-> k, column |-> name]

\* Store record k with the columns cols filled in (the store leaves an empty
\* cell out of the record).
StoreRecord(k, cols) ==
    [t |-> "object", id |-> Cell(k, "id"),
     fields |-> [n \in cols \cup {"t"} |-> IF n = "t" THEN "object" ELSE Cell(k, n)]]

StoreRecords ==
    { StoreRecord(1, StoreColumns),
      StoreRecord(2, {"title", "price", "use-case"}),
      StoreRecord(3, {}) }

SearchData == SeqsUpTo(StoreRecords, MaxStoreRecords)

\* A tag that closes the quote the template opened around it.
QuotingTag == <<"a", "'", ",", " ", "{", "t", "a", "g", "s", "}", ")", ",", " ", "F", "I", "N", "D", "(", "'", "b">>

TagValues == {Str(<<"a">>), Str(<<"b">>), Str(QuotingTag)}

CategoryValues == {Undefined, Str(<<>>), Str(<<"s", "o", "i", "l">>)}

TagsValues ==
    {Undefined, Str(<<"a", "b">>), Num(5),
     [t |-> "object", organic |-> Num(1)], [t |-> "object", length |-> Num(2)]}
    \cup {Arr(a) : a \in SeqsUpTo(TagValues, MaxTags)}

SearchBody(category, tags) ==
    JSONObject([t |-> "object", category |-> category, tags |-> tags])

SearchRequests ==
    { [endpoint |-> "search-products", body |-> SearchBody(c, g)] :
        c \in CategoryValues, g \in TagsValues }

\* ------------------------------------------------------------ search alone
InitSearch == Setup({1})

ArriveSearch(r) == pc[r] = "idle" /\ \E q \in SearchRequests : Arrive(r, q)

SettleSearch(r) ==
    /\ pc[r] = "awaiting"
    /\ \E a \in Failures \cup {Success(d) : d \in SearchData} : Settle(r, a)

NextSearch ==
    \/ \E r \in Slots : ArriveSearch(r)
    \/ \E r \in Slots : SearchStart(r)
    \/ \E r \in Slots : SettleSearch(r)
    \/ \E r \in Slots : SearchResume(r)

SpecSearch == InitSearch /\ [][NextSearch]_vars

\* ------------------------------------------------------------ POST /api/get-response
AIResponseFailed == ErrorResponse("AI response failed")

max_tokens == 300

\* The system prompt: fixed text around JSON.stringify(availableProducts, null, 2)
\* and the user message (JSON.stringify(undefined) is undefined and does not throw).
systemPrompt(availableProducts, userMessage) ==
    [t |-> "template", products |-> availableProducts, question |-> userMessage]

\* Whether ...v throws in an array literal: only arrays and strings among the
\* values a JSON body can hold are iterable.
spreadThrows(v) == v.t \notin {"array", "string"}

\* The elements ...v puts into the array: the items of an array, the
\* characters of a string.
spread(v) ==
    IF v.t = "array" THEN v.a
    ELSE [i \in 1..Len(v.s) |-> Str(<<v.s[i]>>)]

\* messages with the current user message put before the history.
messages_UserFirst(userMessage, conversationHistory, availableProducts) ==
    <<[t |-> "object", role |-> "system",
       content |-> systemPrompt(availableProducts, userMessage)]>>
    \o <<[t |-> "object", role |-> "user", content |-> userMessage]>>
    \o spread(conversationHistory)

\* The message list sent to the language model.
messages(userMessage, conversationHistory, availableProducts) ==
    <<[t |-> "object", role |-> "system",
       content |-> systemPrompt(availableProducts, userMessage)]>>
    \o spread(conversationHistory)
    \o <<[t |-> "object", role |-> "user", content |-> userMessage]>>

\* The handler up to its await.
GetResponseStart(r) ==
    /\ pc[r] = "received"
    /\ req[r].endpoint = "get-response"
    /\ LET userMessage == Prop(req[r].body, "userMessage")
           conversationHistory == Prop(req[r].body, "conversationHistory")
           availableProducts == Prop(req[r].body, "availableProducts")
       IN IF spreadThrows(conversationHistory)
          THEN Respond(r, AIResponseFailed) /\ UNCHANGED <<req, outbound, reply>>
          ELSE /\ Call(r, [provider |-> "language-model", model |-> "gpt-4o-mini",
                           messages |-> messages(userMessage, conversationHistory,
                                                 availableProducts),
                           temperature |-> "0.7", max_tokens |-> max_tokens])
               /\ UNCHANGED <<req, reply, response>>

\* response.data.choices[0].message.content
aiResponseOf(data) ==
    Prop(Prop(Index(Prop(data, "choices"), 0), "message"), "content")

\* aiResponse.toLowerCase().includes(product.title.toLowerCase()) throws when
\* either side is not a string (or the product is null).
matchThrows(aiResponse, product) ==
    aiResponse.t # "string" \/ Prop(product, "title").t # "string"

\* matches without the reply text lower-cased.
matches_CaseSensitive(aiResponse, product) ==
    includes(aiResponse.s, toLowerCase(product.title.s))

\* The filter callback.
matches(aiResponse, product) ==
    includes(toLowerCase(aiResponse.s), toLowerCase(product.title.s))

\* availableProducts.filter(...) throws when availableProducts has no filter
\* method or the callback throws on one of its items; filter visits every item.
filterThrows(aiResponse, availableProducts) ==
    \/ availableProducts.t # "array"
    \/ \E i \in 1..Len(availableProducts.a) :
           matchThrows(aiResponse, availableProducts.a[i])

\* availableProducts.filter(product => ...)
recommendedProducts(aiResponse, availableProducts) ==
    SelectSeq(availableProducts.a, LAMBDA product : matches(aiResponse, product))

\* Array.prototype.slice(0, n)
slice(a, n) == SubSeq(a, 1, IF Len(a) < n THEN Len(a) ELSE n)

\* GetResponseResume for a handler that guards the product attribution on its
\* own: a failing filter leaves the reply text with no recommendations.
GetResponseResume_KeepsText(r) ==
    /\ pc[r] \in {"resolved", "rejected"}
    /\ req[r].endpoint = "get-response"
    /\ IF pc[r] = "rejected"
       THEN Respond(r, AIResponseFailed)
       ELSE LET availableProducts == Prop(req[r].body, "availableProducts")
                aiResponse == aiResponseOf(reply[r].data)
            IN IF aiResponse = Throw
               THEN Respond(r, AIResponseFailed)
               ELSE IF filterThrows(aiResponse, availableProducts)
               THEN Respond(r, JsonResponse(
                        [t |-> "object", text |-> aiResponse,
                         recommendedProducts |-> Arr(<<>>)]))
               ELSE Respond(r, JsonResponse(
                        [t |-> "object", text |-> aiResponse,
                         recommendedProducts |->
                             Arr(slice(recommendedProducts(aiResponse, availableProducts),
                                       RecommendedCap))]))
    /\ UNCHANGED <<req, outbound, reply>>

\* The handler after its await.
GetResponseResume(r) ==
    /\ pc[r] \in {"resolved", "rejected"}
    /\ req[r].endpoint = "get-response"
    /\ IF pc[r] = "rejected"
       THEN Respond(r, AIResponseFailed)
       ELSE LET availableProducts == Prop(req[r].body, "availableProducts")
                aiResponse == aiResponseOf(reply[r].data)
            IN IF aiResponse = Throw \/ filterThrows(aiResponse, availableProducts)
               THEN Respond(r, AIResponseFailed)
               ELSE Respond(r, JsonResponse(
                        [t |-> "object", text |-> aiResponse,
                         recommendedProducts |->
                             Arr(slice(recommendedProducts(aiResponse, availableProducts),
                                       RecommendedCap))]))
    /\ UNCHANGED <<req, outbound, reply>>

\* What the language model may answer with on a 2xx.
Choice(content) ==
    [t |-> "object",
     choices |-> Arr(<<[t |-> "object",
                        message |-> [t |-> "object", role |-> "assistant",
                                     content |-> content]]>>)]

ReplyTexts == {<<"A", "B">>, <<"A">>, <<"b">>}

GetResponseData ==
    {Choice(Str(text)) : text \in ReplyTexts}
    \cup {Choice(Null), [t |-> "object", choices |-> Arr(<<>>)]}

Titled(title) == [t |-> "object", title |-> title]

ProductValues == {Titled(Str(<<"a">>)), Titled(Str(<<"A", "b">>)), Titled(Num(7))}

UserMessages == {Str(<<"h", "i">>), Str(<<"y", "o">>)}

Turns ==
    { [t |-> "object", role |-> "user", content |-> Str(<<"h", "i">>)],
      [t |-> "object", role |-> "assistant", content |-> Str(<<"y", "o">>)] }

HistoryValues ==
    {Undefined, Null, Num(3), EmptyObject, Str(<<"h", "i">>)}
    \cup {Arr(h) : h \in SeqsUpTo(Turns, MaxHistory)}

AvailableProductsValues ==
    {Undefined} \cup {Arr(p) : p \in SeqsUpTo(ProductValues, MaxProducts)}

GetResponseBody(u, h, p) ==
    JSONObject([t |-> "object", userMessage |-> u, conversationHistory |-> h,
                availableProducts |-> p])

GetResponseRequests ==
    { [endpoint |-> "get-response", body |-> GetResponseBody(u, h, p)] :
        u \in UserMessages, h \in HistoryValues, p \in AvailableProductsValues }

\* ------------------------------------------------------------ POST /api/speak
\* The catch block of another handler pasted into this one.
TTSFailed_Pasted == ErrorResponse("AI response failed")

TTSFailed == ErrorResponse("Text-to-speech failed")

\* The handler up to its await.
SpeakStart(r) ==
    /\ pc[r] = "received"
    /\ req[r].endpoint = "speak"
    /\ Call(r, [provider |-> "text-to-speech", text |-> Prop(req[r].body, "text"),
                model_id |-> "eleven_monolingual_v1",
                stability |-> "0.5", similarity_boost |-> "0.75",
                responseType |-> "arraybuffer"])
    /\ UNCHANGED <<req, reply, response>>

\* The handler after its await: the audio bytes as audio/mpeg, or the catch block.
SpeakResume(r) ==
    /\ pc[r] \in {"resolved", "rejected"}
    /\ req[r].endpoint = "speak"
    /\ IF pc[r] = "rejected"
       THEN Respond(r, TTSFailed)
       ELSE Respond(r, [status |-> 200, contentType |-> "audio/mpeg",
                        body |-> reply[r].data])
    /\ UNCHANGED <<req, outbound, reply>>

SpeakData == {[t |-> "buffer", bytes |-> <<"m", "p", "3">>]}

\* ------------------------------------------------------------ get-response alone
InitGetResponse == Setup({1})

ArriveGetResponse(r) == pc[r] = "idle" /\ \E q \in GetResponseRequests : Arrive(r, q)

SettleGetResponse(r) ==
    /\ pc[r] = "awaiting"
    /\ \E a \in Failures \cup {Success(d) : d \in GetResponseData} : Settle(r, a)

NextGetResponse ==
    \/ \E r \in Slots : ArriveGetResponse(r)
    \/ \E r \in Slots : GetResponseStart(r)
    \/ \E r \in Slots : SettleGetResponse(r)
    \/ \E r \in Slots : GetResponseResume(r)

SpecGetResponse == InitGetResponse /\ [][NextGetResponse]_vars

\* ------------------------------------------------------------ the four endpoints, one request
\* Requests to each endpoint, well-formed and malformed.
EndpointRequests ==
    TranscribeRequests
    \cup { [endpoint |-> "speak", body |-> [t |-> "object", text |-> Str(<<"h", "i">>)]],
           [endpoint |-> "speak", body |-> EmptyObject] }
    \cup { [endpoint |-> "search-products", body |-> SearchBody(c, g)] :
             c \in {Undefined, Str(<<"s", "o", "i", "l">>)},
             g \in {Undefined, Null, Str(<<>>), Str(<<"a", "b">>), Num(5),
                    [t |-> "object", organic |-> Num(1)], [t |-> "object", length |-> Num(2)],
                    Arr(<<>>), Arr(<<Str(<<"a">>)>>)} }
    \cup { [endpoint |-> "get-response", body |-> GetResponseBody(Str(<<"h", "i">>), h, p)] :
             h \in {Undefined, Null, Num(3), EmptyObject, Str(<<"h", "i">>), Arr(<<>>)},
             p \in {Undefined, Arr(<<Titled(Str(<<"a">>))>>)} }

\* What the provider of an endpoint may answer with on a 2xx.
EndpointData(endpoint) ==
    CASE endpoint = "transcribe" -> TranscribeData
      [] endpoint = "search-products" -> {<<>>, <<StoreRecord(1, StoreColumns)>>}
      [] endpoint = "get-response" -> {Choice(Str(<<"A">>)), Choice(Str(<<"b">>))}
      [] endpoint = "speak" -> SpeakData

InitEndpoints == Setup({1})

ArriveEndpoint(r) == pc[r] = "idle" /\ \E q \in EndpointRequests : Arrive(r, q)

SettleEndpoint(r) ==
    /\ pc[r] = "awaiting"
    /\ \E a \in Failures \cup {Success(d) : d \in EndpointData(req[r].endpoint)} :
           Settle(r, a)

NextEndpoints ==
    \/ \E r \in Slots : ArriveEndpoint(r)
    \/ \E r \in Slots : TranscribeStart(r)
    \/ \E r \in Slots : TranscribeResume(r)
    \/ \E r \in Slots : SearchStart(r)
    \/ \E r \in Slots : SearchResume(r)
    \/ \E r \in Slots : GetResponseStart(r)
    \/ \E r \in Slots : GetResponseResume(r)
    \/ \E r \in Slots : SpeakStart(r)
    \/ \E r \in Slots : SpeakResume(r)
    \/ \E r \in Slots : SettleEndpoint(r)

SpecEndpoints == InitEndpoints /\ [][NextEndpoints]_vars

\* ------------------------------------------------------------ the four endpoints, concurrently
\* The requests handled concurrently: one well-formed request per endpoint,
\* and one malformed.
Requests ==
    TranscribeRequests
    \cup { [endpoint |-> "speak", body |-> [t |-> "object", text |-> Str(<<"h", "i">>)]],
           [endpoint |-> "search-products", body |-> SearchBody(Undefined, Str(<<"a", "b">>))],
           [endpoint |-> "search-products",
            body |-> SearchBody(Undefined, Arr(<<Str(<<"a">>)>>))] }
    \cup { [endpoint |-> "get-response",
            body |-> GetResponseBody(Str(<<"h", "i">>), h, Arr(<<Titled(Str(<<"a">>))>>))] :
             h \in {Undefined, Arr(<<>>)} }

\* What the provider of an endpoint answers with on a 2xx.
Data(endpoint) ==
    CASE endpoint = "transcribe" ->
             {Alternatives(<<[t |-> "object", transcript |-> Str(<<"h", "i">>)]>>)}
      [] endpoint = "search-products" -> {<<StoreRecord(1, StoreColumns)>>}
      [] endpoint = "get-response" -> {Choice(Str(<<"A">>))}
      [] endpoint = "speak" -> SpeakData

Init == Setup(1..NumReq)

ArriveAny(r) == pc[r] = "idle" /\ \E q \in Requests : Arrive(r, q)

SettleAny(r) ==
    /\ pc[r] = "awaiting"
    /\ \E a \in Failures \cup {Success(d) : d \in Data(req[r].endpoint)} : Settle(r, a)

Next ==
    \/ \E r \in Slots : ArriveAny(r)
    \/ \E r \in Slots : TranscribeStart(r)
    \/ \E r \in Slots : TranscribeResume(r)
    \/ \E r \in Slots : SearchStart(r)
    \/ \E r \in Slots : SearchResume(r)
    \/ \E r \in Slots : GetResponseStart(r)
    \/ \E r \in Slots : GetResponseResume(r)
    \/ \E r \in Slots : SpeakStart(r)
    \/ \E r \in Slots : SpeakResume(r)
    \/ \E r \in Slots : SettleAny(r)

Spec == Init /\ [][Next]_vars

\* The steps of the handler of the request in slot r.
Handler(r) ==
    \/ TranscribeStart(r) \/ TranscribeResume(r)
    \/ SearchStart(r) \/ SearchResume(r)
    \/ GetResponseStart(r) \/ GetResponseResume(r)
    \/ SpeakStart(r) \/ SpeakResume(r)

\* ============================================================ properties
\* The body of the request in slot r.
Body(r) == req[r].body

\* Whether the request's body has the property name.
Has(r, name) == name \in DOMAIN Body(r)

\* The positions at which pat occurs in s.
Occurrences(pat, s) == {i \in 1..Len(s) : OccursAt(pat, s, i)}

\* Whether s ends with pat.
EndsWith(s, pat) == OccursAt(pat, s, Len(s) - Len(pat) + 1)

\* A search request whose handler has passed its synchronous part.
SearchHandled(r) == req[r].endpoint = "search-products" /\ pc[r] \notin {"idle", "received"}

\* ------------------------------------------------------------ C3
\* A search request with no category (none, or the empty string) and no tags
\* (none, or the empty array).
NoCategoryNoTags(r) ==
    /\ (~Has(r, "category") \/ Body(r).category = Str(<<>>))
    /\ (~Has(r, "tags") \/ Body(r).tags = Arr(<<>>))

\* The in-stock clause alone: AND({in_stock} = TRUE())
InStockOnly == <<"A", "N", "D", "(", "{", "i", "n", "_", "s", "t", "o", "c", "k", "}", " ", "=", " ", "T", "R", "U", "E", "(", ")", ")">>

\* C3: for a search request with no category and no tags the handler makes one
\* call to the store, and the filter formula it passes is the in-stock clause
\* alone, AND({in_stock} = TRUE()).
C3_InStockOnly ==
    \A r \in Slots :
        (SearchHandled(r) /\ NoCategoryNoTags(r)) =>
            /\ Len(outbound[r]) = 1
            /\ outbound[r][1].filterByFormula = InStockOnly

\* A request with an empty category string and an empty tags array has reached the store.
C3_Witness ==
    \E r \in Slots :
        /\ SearchHandled(r)
        /\ Has(r, "category") /\ Body(r).category = Str(<<>>)
        /\ Has(r, "tags") /\ Body(r).tags = Arr(<<>>)
        /\ Len(outbound[r]) = 1

\* ------------------------------------------------------------ C4
\* A search request whose tags is a non-empty array.
HasTagList(r) == Has(r, "tags") /\ Body(r).tags.t = "array" /\ Body(r).tags.a # <<>>

\* The formula f holds one containment clause per tag of the list, in the
\* list's order: FIND(' opens as many clauses as there are tags, and the i-th
\* of them is the clause of the i-th tag.
OneClausePerTag(f, tagList) ==
    LET opens == Occurrences(FindOpen, f)
    IN /\ Cardinality(opens) = Len(tagList)
       /\ \A i \in 1..Len(tagList) :
              \E at \in opens :
                  /\ Cardinality({b \in opens : b < at}) = i - 1
                  /\ OccursAt(FindOpen \o tagList[i].s \o FindClose, f, at)

\* C4: for a search request with a non-empty tags list t1..tn the filter
\* formula passed to the store holds exactly one containment clause on the tags
\* field per tag, n clauses in input order, in a single OR group that is
\* conjoined by AND with the in-stock clause and, when a category is given,
\* with the category clause.
C4_OneClausePerTag ==
    \A r \in Slots :
        (SearchHandled(r) /\ HasTagList(r)) =>
            /\ Len(outbound[r]) = 1
            /\ LET f == outbound[r][1].filterByFormula
               IN /\ OccursAt(InStockOpen, f, 1)
                  /\ OneClausePerTag(f, Body(r).tags.a)
                  /\ Cardinality(Occurrences(<<"O", "R", "(">>, f)) = 1
                  /\ EndsWith(f, <<")", ")">>)
                  /\ (Has(r, "category") /\ Body(r).category # Str(<<>>)) =>
                         OccursAt(CategoryOpen \o Body(r).category.s \o Quote, f,
                                  Len(InStockOpen) + 1)

\* ------------------------------------------------------------ C5
\* The field names the claim lists.
ClaimedFields ==
    {"id", "product_id", "title", "brand", "category", "tags", "short_description",
     "price", "bag_size", "in_stock", "image_url", "use_case", "voice_script"}

\* The field names the handler gives a product.
ProductFields ==
    {"id", "product_id", "title", "brand", "category", "tags", "short_description",
     "price", "bag_size_cf", "in_stock", "image_url", "use_case", "voice_script_30S"}

\* The store column a product field is read from.
StoreName(field) ==
    CASE field = "bag_size_cf" -> "bag-size-cf"
      [] field = "use_case" -> "use-case"
      [] OTHER -> field

\* The property names of an object.
Keys(o) == DOMAIN o \ {"t"}

\* A search request answered with products.
SearchAnswered(r) ==
    /\ req[r].endpoint = "search-products"
    /\ pc[r] = "done"
    /\ response[r][1].status = 200

\* C5 as stated: every product returned has exactly the fields id, product_id,
\* title, brand, category, tags, short_description, price, bag_size, in_stock,
\* image_url, use_case, voice_script.
C5_ClaimedFields ==
    \A r \in Slots :
        SearchAnswered(r) =>
            \A i \in 1..Len(response[r][1].body.products.a) :
                Keys(response[r][1].body.products.a[i]) = ClaimedFields

\* C5, amended: the i-th product returned is made of the i-th store record; it
\* is built with exactly the fields id, product_id, title, brand, category,
\* tags, short_description, price, bag_size_cf, in_stock, image_url, use_case,
\* voice_script_30S; the response holds those of them the record has a value
\* for, each with the value of the same-named store column, except bag_size_cf
\* and use_case, which hold the columns bag-size-cf and use-case.
C5_ProductFields ==
    \A r \in Slots :
        SearchAnswered(r) =>
            LET records == reply[r].data
                sent == response[r][1].body.products.a
            IN /\ Len(sent) = Len(records)
               /\ \A i \in 1..Len(records) :
                      /\ Keys(toProduct(records[i])) = ProductFields
                      /\ Keys(sent[i]) =
                             {"id"} \cup {f \in ProductFields \ {"id"} :
                                              StoreName(f) \in Keys(records[i].fields)}
                      /\ sent[i].id = records[i].id
                      /\ \A f \in Keys(sent[i]) \ {"id"} :
                             sent[i][f] = records[i].fields[StoreName(f)]
               /\ {f \in ProductFields : StoreName(f) # f} = {"bag_size_cf", "use_case"}

\* A response holding a product made of a record with every column filled in.
C5_Witness ==
    \E r \in Slots :
        /\ SearchAnswered(r)
        /\ \E i \in 1..Len(reply[r].data) :
               /\ Keys(reply[r].data[i].fields) = StoreColumns
               /\ Keys(response[r][1].body.products.a[i]) = ProductFields

\* ------------------------------------------------------------ C1
\* A get-response request answered with a reply text.
GetResponseAnswered(r) ==
    /\ req[r].endpoint = "get-response"
    /\ pc[r] = "done"
    /\ response[r][1].status = 200

\* Two characters that differ at most in case.
SameLetter(c, d) == c = d \/ {c, d} = {"a", "A"} \/ {c, d} = {"b", "B"}

\* Whether title occurs in text as a substring, case ignored.
OccursIgnoringCase(title, text) ==
    \E start \in 0..(Len(text) - Len(title)) :
        \A j \in 1..Len(title) : SameLetter(text[start + j], title[j])

\* The positions of the products whose title occurs in the reply text.
Mentioned(list, text) ==
    {i \in 1..Len(list) : OccursIgnoringCase(list[i].title.s, text.s)}

\* Whether sub is list restricted to the positions chosen, in list order.
IsSelection(sub, list, chosen) ==
    /\ Len(sub) = Cardinality(chosen)
    /\ \A i \in chosen : sub[Cardinality({j \in chosen : j <= i})] = list[i]

\* C1 as stated: recommendedProducts is availableProducts restricted, in order,
\* to the products whose title occurs case-insensitively in the reply text
\* (every one of them, and no other), and has at most 3 items.
C1_AllMentioned ==
    \A r \in Slots :
        GetResponseAnswered(r) =>
            LET list == Body(r).availableProducts.a
                sub == response[r][1].body.recommendedProducts.a
            IN /\ Len(sub) <= 3
               /\ IsSelection(sub, list, Mentioned(list, reply[r].data.choices.a[1].message.content))

\* C1, amended: recommendedProducts is availableProducts restricted, in order,
\* to the first 3 products whose title occurs case-insensitively in the reply
\* text; it has at most 3 items, and a further product whose title occurs is
\* left out.
C1_FirstThreeMentioned ==
    \A r \in Slots :
        GetResponseAnswered(r) =>
            LET list == Body(r).availableProducts.a
                sub == response[r][1].body.recommendedProducts.a
                all == Mentioned(list, reply[r].data.choices.a[1].message.content)
                firstThree == {i \in all : Cardinality({j \in all : j < i}) < 3}
            IN /\ Len(sub) <= 3
               /\ IsSelection(sub, list, firstThree)

\* A reply that mentions, in another case, some but not all of the products.
C1_Witness ==
    \E r \in Slots :
        /\ GetResponseAnswered(r)
        /\ Len(response[r][1].body.recommendedProducts.a) = 2
        /\ Len(Body(r).availableProducts.a) = 3
        /\ reply[r].data.choices.a[1].message.content = Str(<<"A">>)

\* ------------------------------------------------------------ C6
\* A get-response request whose conversationHistory is a list and whose
\* handler has passed its synchronous part.
HistoryListHandled(r) ==
    /\ req[r].endpoint = "get-response"
    /\ pc[r] \notin {"idle", "received"}
    /\ Has(r, "conversationHistory")
    /\ Body(r).conversationHistory.t = "array"

\* C6: for a get-response request with user message u and history h1..hn the
\* handler makes one call to the language model, whose message list has n + 2
\* turns: first the system instruction (role system, built from the product
\* list and u), then h1..hn unmodified and in order, last the turn
\* {role: 'user', content: u}.
C6_MessageList ==
    \A r \in Slots :
        HistoryListHandled(r) =>
            /\ Len(outbound[r]) = 1
            /\ LET sent == outbound[r][1].messages
                   h == Body(r).conversationHistory.a
                   u == Body(r).userMessage
               IN /\ Len(sent) = Len(h) + 2
                  /\ sent[1].role = "system"
                  /\ sent[1].content.question = u
                  /\ sent[1].content.products = Prop(Body(r), "availableProducts")
                  /\ \A i \in 1..Len(h) : sent[i + 1] = h[i]
                  /\ sent[Len(sent)] = [t |-> "object", role |-> "user", content |-> u]

\* A call made with a history of two different turns.
C6_Witness ==
    \E r \in Slots :
        /\ HistoryListHandled(r)
        /\ Len(Body(r).conversationHistory.a) = 2
        /\ Body(r).conversationHistory.a[1] # Body(r).conversationHistory.a[2]
        /\ Len(outbound[r]) = 1

\* ------------------------------------------------------------ C10
\* The language model answered the request in slot r with a reply text.
ModelReplied(r) ==
    /\ req[r].endpoint = "get-response"
    /\ reply[r].ok
    /\ aiResponseOf(reply[r].data).t = "string"

\* availableProducts is absent, or a list holding a product whose title is not
\* a string.
BadProducts(r) ==
    \/ ~Has(r, "availableProducts")
    \/ /\ Body(r).availableProducts.t = "array"
       /\ \E i \in 1..Len(Body(r).availableProducts.a) :
              ~ ( /\ "title" \in DOMAIN Body(r).availableProducts.a[i]
                  /\ Body(r).availableProducts.a[i].title.t = "string" )

\* C10: when the language model answered with a reply text but
\* availableProducts is absent or holds a product whose title is not a string,
\* the handler answers 500 'AI response failed' and nothing else: one call to
\* the model was made, and the reply text is not in the response.
C10_ReplyDiscarded ==
    \A r \in Slots :
        (ModelReplied(r) /\ BadProducts(r) /\ pc[r] = "done") =>
            /\ response[r] = <<[status |-> 500, contentType |-> "application/json",
                                body |-> [t |-> "object", error |-> "AI response failed"]]>>
            /\ Len(outbound[r]) = 1
            /\ outbound[r][1].provider = "language-model"

\* Both cases have happened: the list absent, and a title that is a number
\* behind three products the reply mentions.
C10_Witness ==
    \E r \in Slots :
        /\ ModelReplied(r) /\ pc[r] = "done"
        /\ Has(r, "availableProducts")
        /\ Len(Body(r).availableProducts.a) = 4
        /\ \A i \in 1..3 : Body(r).availableProducts.a[i].title = Str(<<"a">>)
        /\ Body(r).availableProducts.a[4].title.t = "number"
        /\ response[r][1].status = 500

\* ------------------------------------------------------------ C2
\* The fixed error message of an endpoint.
FixedMessage(endpoint) ==
    CASE endpoint = "transcribe" -> "Transcription failed"
      [] endpoint = "search-products" -> "Product search failed"
      [] endpoint = "get-response" -> "AI response failed"
      [] endpoint = "speak" -> "Text-to-speech failed"

\* The response 500 whose body is the endpoint's fixed error message alone.
FixedError(r) ==
    [status |-> 500, contentType |-> "application/json",
     body |-> [t |-> "object", error |-> FixedMessage(req[r].endpoint)]]

\* The outbound call of the request in slot r failed.
CallFailed(r) == reply[r] \in Failures

\* C2: when the outbound provider call of a request to one of the four POST
\* endpoints fails (no connection, or a status outside 2xx), the request is
\* answered with HTTP 500 whose body is the endpoint's fixed error message and
\* nothing else.
C2_FixedErrorOnFailure ==
    \A r \in Slots :
        (CallFailed(r) /\ pc[r] = "done") => response[r] = <<FixedError(r)>>

\* A text-to-speech call that got a status outside 2xx, answered.
C2_Witness ==
    \E r \in Slots :
        /\ req[r].endpoint = "speak"
        /\ CallFailed(r) /\ reply[r].kind = "status"
        /\ pc[r] = "done" /\ response[r][1].status = 500

\* ------------------------------------------------------------ C7
\* The provider's data holds the whole path
\* results.channels[0].alternatives[0].transcript.
HasTranscriptPath(data) ==
    /\ "results" \in DOMAIN data
    /\ "channels" \in DOMAIN data.results
    /\ data.results.channels.a # <<>>
    /\ "alternatives" \in DOMAIN data.results.channels.a[1]
    /\ data.results.channels.a[1].alternatives.a # <<>>
    /\ "transcript" \in DOMAIN data.results.channels.a[1].alternatives.a[1]

\* C7: a transcribe request is answered 500 'Transcription failed' whenever
\* the provider call fails or the provider's data lacks a part of the path
\* results.channels[0].alternatives[0].transcript; it is answered 200 only when
\* the whole path is there, with the provider's transcript unmodified.
C7_TranscriptPath ==
    \A r \in Slots :
        (req[r].endpoint = "transcribe" /\ pc[r] = "done" /\ outbound[r] # <<>>) =>
            IF CallFailed(r) \/ ~HasTranscriptPath(reply[r].data)
            THEN response[r] = <<FixedError(r)>>
            ELSE /\ Len(response[r]) = 1
                 /\ response[r][1].status = 200
                 /\ Keys(response[r][1].body) = {"transcript"}
                 /\ response[r][1].body.transcript =
                        reply[r].data.results.channels.a[1].alternatives.a[1].transcript

\* ------------------------------------------------------------ C8
\* What the model holds of the request in slot r.
Of(r) == <<req[r], pc[r], outbound[r], reply[r], response[r]>>

\* At most one outbound call and at most one response per request; a finished
\* handler has sent one, and a response ends the handler.
C8_AtMostOne ==
    \A r \in Slots :
        /\ Len(outbound[r]) <= 1
        /\ Len(response[r]) <= 1
        /\ (pc[r] = "done") <=> (Len(response[r]) = 1)

\* A request that has arrived and has no response yet can take a step: its
\* handler runs, or its outbound call is pending and can end.
C8_NeverStuck ==
    \A r \in Slots :
        /\ pc[r] \in {"received", "resolved", "rejected"} => ENABLED Handler(r)
        /\ pc[r] = "awaiting" => Len(outbound[r]) = 1 /\ ENABLED SettleAny(r)

\* After a failed call no call is added, and the next step of the request is
\* its error response.
C8_NoRetryStep ==
    \A r \in Slots :
        CallFailed(r) =>
            /\ outbound'[r] = outbound[r]
            /\ (pc[r] = "rejected" /\ Of(r)' # Of(r)) =>
                   /\ pc'[r] = "done"
                   /\ response'[r] = <<ErrorResponse(FixedMessage(req[r].endpoint))>>

\* C8: under any interleaving of the requests being handled, a request makes
\* at most one outbound call and gets exactly one response (never a second
\* one, and its handler is never left unable to go on to one); after a
\* provider failure no further call is made for the request and its next
\* event is its error response.
C8_OneCallOneResponse ==
    /\ [](C8_AtMostOne /\ C8_NeverStuck)
    /\ [][C8_NoRetryStep]_vars

\* Two requests in flight at once, one of them failed and answered while the
\* other still waits for its provider.
C8_Witness ==
    \E r1, r2 \in Slots :
        /\ CallFailed(r1) /\ pc[r1] = "done" /\ Len(outbound[r1]) = 1
        /\ pc[r2] = "awaiting"

\* ------------------------------------------------------------ C9
\* The three malformed requests: no audio file, a conversationHistory that is
\* absent or not iterable, tags that is not an array and has a positive length.
Malformed(r) ==
    \/ /\ req[r].endpoint = "transcribe"
       /\ req[r].file = Undefined
    \/ /\ req[r].endpoint = "get-response"
       /\ \/ ~Has(r, "conversationHistory")
          \/ Body(r).conversationHistory.t \in {"null", "number", "object"}
    \/ /\ req[r].endpoint = "search-products"
       /\ Has(r, "tags")
       /\ \/ Body(r).tags.t = "string" /\ Body(r).tags.s # <<>>
          \/ /\ Body(r).tags.t = "object"
             /\ "length" \in DOMAIN Body(r).tags
             /\ Body(r).tags.length.n > 0

====
